---- MODULE Spec2Model ----
(***************************************************************************)
(* The todo front-end: the App controller (App.js), the inline editor of   *)
(* one row (TodoItem), the API client (api/client.js) and the HTTP backend *)
(* they talk to.                                                           *)
(*                                                                         *)
(* A step of the model is one run of JavaScript to completion: the         *)
(* synchronous part of an event handler up to its await, or the            *)
(* continuation of a handler after its network call has settled, together  *)
(* with the render React commits for the state updates of that run.        *)
(*                                                                         *)
(* Text (titles, drafts) is a sequence of one-character strings, so that   *)
(* String.prototype.trim is computed; messages are plain strings.          *)
(***************************************************************************)
EXTENDS Integers, Sequences, FiniteSets, TLC

\* ------------------------------------------------------------------ bounds
\* The backend assigns ids 1..MaxId and then refuses to create.
MaxId == 2
\* Network calls in flight at once when the handlers are driven directly.
MaxCalls == 2
\* Handler entries that issue a call, when the handlers are driven directly.
MaxEntered == 2
\* Rows in edit mode at once.
MaxEditing == 1

Ids == 1..MaxId

\* What a user types into the add form or an inline editor (the backend's
\* first row is titled "a").
Drafts == { <<>>, <<" ">>, <<" ", "b">> }

FILTERS == {"all", "active", "completed"}

VARIABLES
    todos,      \* App: useState([])     the list, in display order
    filter,     \* App: useState("all")
    newTitle,   \* App: useState("")     draft of the add form
    loading,    \* App: useState(true)
    mutating,   \* App: useState(false)
    error,      \* App: useState("")
    items,      \* TodoItem, by key todo.id: mounted, isEditing, draftTitle
    calls,      \* the network calls in flight, oldest first
    db,         \* backend: its rows, newest first
    nextId,     \* backend: the id the next create gets
    entered,    \* history: calls issued by handlers that were driven directly
    last,       \* history: the step just taken
    streak      \* history: the latest settled call, when a successful toggle

vars == <<todos, filter, newTitle, loading, mutating, error, items, calls,
          db, nextId, entered, last, streak>>

\* ------------------------------------------------------------ text helpers
IsSpace(c) == c = " "

RECURSIVE TrimStart(_)
TrimStart(s) ==
    IF s # <<>> /\ IsSpace(Head(s)) THEN TrimStart(Tail(s)) ELSE s

RECURSIVE TrimEnd(_)
TrimEnd(s) ==
    IF s # <<>> /\ IsSpace(s[Len(s)]) THEN TrimEnd(SubSeq(s, 1, Len(s) - 1)) ELSE s

\* String.prototype.trim
Trim(s) == TrimEnd(TrimStart(s))

\* ------------------------------------------------------------ list helpers
IdsOf(ts) == { ts[k].id : k \in 1..Len(ts) }

HasId(ts, id) == \E k \in 1..Len(ts) : ts[k].id = id

\* Array.prototype.find by id: the first entry with that id.
FindById(ts, id) ==
    ts[CHOOSE k \in 1..Len(ts) :
        ts[k].id = id /\ \A j \in 1..(k - 1) : ts[j].id # id]

NoDuplicateIds(ts) ==
    \A j, k \in 1..Len(ts) : ts[j].id = ts[k].id => j = k

\* ------------------------------------------------------------ derived views
\* The useMemo body of filteredTodos, for a list and a filter.
FilteredOf(ts, f) ==
    IF f = "active" THEN SelectSeq(ts, LAMBDA t : ~t.completed)
    ELSE IF f = "completed" THEN SelectSeq(ts, LAMBDA t : t.completed)
    ELSE ts

filteredTodos == FilteredOf(todos, filter)

counts ==
    LET total == Len(todos)
        completed == Len(SelectSeq(todos, LAMBDA t : t.completed))
    IN  [total |-> total, active |-> total - completed, completed |-> completed]

\* ------------------------------------------------------- api/client.js
\* What fetch settles to: still pending, rejected (no response arrived), or
\* a response.
NetPending == [state |-> "pending"]
NetRejected == [state |-> "rejected", message |-> "Failed to fetch"]
NetResponse(res) == [state |-> "response", res |-> res]

\* parseErrorBody stringifying every JSON object, a string detail or not.
ParseErrorBodyStringifies(response) ==
    LET data == response.body IN
    IF data.type \in {"none", "text"}
    THEN (IF response.statusText # "" THEN response.statusText ELSE "Request failed")
    ELSE data.text

\* A response body: "none" (empty), "text" (not JSON), or parsed JSON of
\* type "detail" (an object whose detail is a string), "object" (any other
\* object, text its JSON.stringify), "scalar" (a non-object or null, text
\* its String()), "list" ({items, total}) or "todo" (one row).
ParseErrorBody(response) ==
    LET data == response.body IN
    IF data.type \in {"none", "text"}
    THEN (IF response.statusText # "" THEN response.statusText ELSE "Request failed")
    ELSE IF data.type = "scalar" THEN data.text
    ELSE IF data.type = "detail" THEN data.detail
    ELSE data.text

\* request without the test for 204: res.json() of an empty body rejects.
RequestParsesNoContent(net) ==
    IF net.state = "rejected"
    THEN [threw |-> TRUE, err |-> [isError |-> TRUE, message |-> net.message]]
    ELSE IF ~net.res.ok
    THEN [threw |-> TRUE,
          err |-> [isError |-> TRUE, message |-> ParseErrorBody(net.res)]]
    ELSE IF net.res.body.type = "none"
    THEN [threw |-> TRUE,
          err |-> [isError |-> TRUE, message |-> "Unexpected end of JSON input"]]
    ELSE [threw |-> FALSE, value |-> net.res.body]

\* What awaiting request(...) gives its caller.
Request(net) ==
    IF net.state = "rejected"
    THEN [threw |-> TRUE, err |-> [isError |-> TRUE, message |-> net.message]]
    ELSE IF ~net.res.ok
    THEN [threw |-> TRUE,
          err |-> [isError |-> TRUE, message |-> ParseErrorBody(net.res)]]
    ELSE IF net.res.status = 204
    THEN [threw |-> FALSE, value |-> [type |-> "null"]]
    ELSE [threw |-> FALSE, value |-> net.res.body]

\* The five calls: what each puts on the wire.
listTodos == [op |-> "list", id |-> 0, title |-> <<>>, completed |-> FALSE]

createTodo(title) ==
    [op |-> "create", id |-> 0, title |-> title, completed |-> FALSE]

updateTodo(id, title, completed) ==
    [op |-> "update", id |-> id, title |-> title, completed |-> completed]

deleteTodo(id) == [op |-> "delete", id |-> id, title |-> <<>>, completed |-> FALSE]

toggleTodo(id) == [op |-> "toggle", id |-> id, title |-> <<>>, completed |-> FALSE]

\* -------------------------------------------------------------- backend
Row(id, title, completed) == [id |-> id, title |-> title, completed |-> completed]

Ok200(body) == [ok |-> TRUE, status |-> 200, statusText |-> "OK", body |-> body]

NoContent204 ==
    [ok |-> TRUE, status |-> 204, statusText |-> "No Content", body |-> [type |-> "none"]]

\* Non-success responses the backend (or a proxy before it) sends.
ErrorResponses ==
    { [ok |-> FALSE, status |-> 404, statusText |-> "Not Found",
       body |-> [type |-> "detail", detail |-> "Todo not found"]],
      [ok |-> FALSE, status |-> 500, statusText |-> "Internal Server Error",
       body |-> [type |-> "detail", detail |-> ""]] }

\* Whether the backend can carry out a request.
CanApply(req) ==
    IF req.op = "list" THEN TRUE
    ELSE IF req.op = "create" THEN nextId <= MaxId
    ELSE HasId(db, req.id)

\* The backend carrying out a request: its rows after, and its response.
Apply(req) ==
    IF req.op = "list"
    THEN [db |-> db, nextId |-> nextId,
          res |-> Ok200([type |-> "list", hasItems |-> TRUE, items |-> db])]
    ELSE IF req.op = "create"
    THEN LET row == Row(nextId, req.title, req.completed) IN
         [db |-> <<row>> \o db, nextId |-> nextId + 1,
          res |-> Ok200([type |-> "todo", todo |-> row])]
    ELSE IF req.op = "update"
    THEN LET row == Row(req.id, req.title, req.completed) IN
         [db |-> [k \in 1..Len(db) |-> IF db[k].id = req.id THEN row ELSE db[k]],
          nextId |-> nextId,
          res |-> Ok200([type |-> "todo", todo |-> row])]
    ELSE IF req.op = "toggle"
    THEN LET old == FindById(db, req.id)
             row == Row(old.id, old.title, ~old.completed) IN
         [db |-> [k \in 1..Len(db) |-> IF db[k].id = req.id THEN row ELSE db[k]],
          nextId |-> nextId,
          res |-> Ok200([type |-> "todo", todo |-> row])]
    ELSE [db |-> SelectSeq(db, LAMBDA t : t.id # req.id), nextId |-> nextId,
          res |-> NoContent204]

\* ---------------------------------------------------------------- calls
\* A call in flight: the request, the handler's locals that its
\* continuation reads (prevTodos), whether a mounted TodoItem's commitEdit
\* awaits it (editor), and history (pre: todos when the handler was
\* entered; overlapped: another mutating call was in flight with it;
\* confirmed: the mutating calls that the server answered with success
\* while this one was in flight, each with the value it returned and
\* whether todos held its id when it was started).
Mutations == {"create", "toggle", "delete", "update"}

MutatingInFlight == \E k \in 1..Len(calls) : calls[k].req.op \in Mutations

NewCall(req, prevTodos, editor) ==
    [req |-> req, prevTodos |-> prevTodos, editor |-> editor, pre |-> todos,
     net |-> NetPending,
     overlapped |-> req.op \in Mutations /\ MutatingInFlight,
     confirmed |-> {}]

\* calls after another call has been issued.
Issue(req, prevTodos, editor) ==
    Append(
        [k \in 1..Len(calls) |->
            IF req.op \in Mutations /\ calls[k].req.op \in Mutations
            THEN [calls[k] EXCEPT !.overlapped = TRUE] ELSE calls[k]],
        NewCall(req, prevTodos, editor))

Remove(s, k) == SubSeq(s, 1, k - 1) \o SubSeq(s, k + 1, Len(s))

\* History: the calls left in flight note that call c was confirmed.
Confirm(cs, c, r) ==
    IF r.threw THEN cs
    ELSE [k \in 1..Len(cs) |->
            IF cs[k].req.op \in Mutations
            THEN [cs[k] EXCEPT !.confirmed =
                    @ \cup {[op |-> c.req.op, id |-> c.req.id, value |-> r.value,
                              present |-> HasId(c.pre, c.req.id)]}]
            ELSE cs[k]]

\* ------------------------------------------------------------- TodoItem
Unmounted == [mounted |-> FALSE, isEditing |-> FALSE, draftTitle |-> <<>>]

\* The rows App renders: none while loading, else one per filtered todo.
Rendered(ts, f, ld) == IF ld THEN {} ELSE IdsOf(FilteredOf(ts, f))

\* TodoItem state after App re-renders: a row that appears is mounted with
\* useState's initial values, a row that disappears is unmounted, and a row
\* that stays resets its draft when todo.title changed (the useEffect).
RenderItems(its, oldTodos, newTodos, f, ld) ==
    [i \in Ids |->
        IF i \notin Rendered(newTodos, f, ld) THEN Unmounted
        ELSE IF ~its[i].mounted
        THEN [mounted |-> TRUE, isEditing |-> FALSE,
              draftTitle |-> FindById(newTodos, i).title]
        ELSE IF FindById(newTodos, i).title # FindById(oldTodos, i).title
        THEN [its[i] EXCEPT !.draftTitle = FindById(newTodos, i).title]
        ELSE its[i]]

\* A commitEdit that awaits a call belongs to one mounted TodoItem; once
\* that row is unmounted its setIsEditing does nothing.
Detach(cs, its) ==
    [k \in 1..Len(cs) |->
        IF cs[k].editor /\ ~its[cs[k].req.id].mounted
        THEN [cs[k] EXCEPT !.editor = FALSE] ELSE cs[k]]

\* React commits the render for a handler's state updates: the new list,
\* filter and loading flag decide which rows are mounted.
Commit(t, f, ld, its, cs) ==
    /\ todos' = t
    /\ filter' = f
    /\ loading' = ld
    /\ items' = RenderItems(its, todos, t, f, ld)
    /\ calls' = Detach(cs, items')

\* ----------------------------------------------------------------- history
NoCall == [req |-> [op |-> "none", id |-> 0]]
\* streak: was is the local completed of that id before the toggle, agreed
\* whether the backend's was the same.
NoStreak == [on |-> FALSE, id |-> 0, was |-> FALSE, agreed |-> FALSE]

\* kind: "init", "enter" (a handler was entered), "settle" (a handler's
\* continuation ran) or "other"; editor: entered through commitEdit.
Event(kind, op, id) ==
    [kind |-> kind, op |-> op, id |-> id, ok |-> TRUE, editor |-> FALSE,
     call |-> NoCall, prior |-> NoStreak, message |-> ""]

Entered(op, id, editor) == [Event("enter", op, id) EXCEPT !.editor = editor]

Settled(c, r) ==
    [kind |-> "settle", op |-> c.req.op, id |-> c.req.id, ok |-> ~r.threw,
     editor |-> c.editor, call |-> c, prior |-> streak,
     message |-> IF r.threw THEN r.err.message ELSE ""]

\* --------------------------------------------------------------------- Init
InitDbs == { <<Row(1, <<"a">>, FALSE)>> }

Init ==
    /\ todos = <<>>
    /\ filter = "all"
    /\ newTitle = <<>>
    /\ loading = TRUE
    /\ mutating = FALSE
    /\ error = ""
    /\ items = [i \in Ids |-> Unmounted]
    \* useEffect(() => { refresh(); }, []): the list call is in flight.
    /\ calls = << [req |-> listTodos, prevTodos |-> <<>>, editor |-> FALSE,
                   pre |-> <<>>, net |-> NetPending, overlapped |-> FALSE,
                   confirmed |-> {}] >>
    /\ db \in InitDbs
    /\ nextId = Len(db) + 1
    /\ entered = 0
    /\ last = Event("init", "refresh", 0)
    /\ streak = NoStreak

\* ---------------------------------------------------------- App handlers
\* Each handler up to its await.
CatchMessage(err, fallback) == IF err.isError THEN err.message ELSE fallback

refresh ==
    /\ error' = ""
    /\ Commit(todos, filter, TRUE, items, Issue(listTodos, <<>>, FALSE))
    /\ last' = Entered("refresh", 0, FALSE)
    /\ UNCHANGED <<newTitle, mutating, db, nextId, streak>>

\* handleAdd testing the draft without trimming it.
handleAddUntrimmed ==
    LET title == newTitle IN
    IF title = <<>>
    THEN /\ last' = Entered("add", 0, FALSE)
         /\ UNCHANGED <<todos, filter, newTitle, loading, mutating, error,
                        items, calls, db, nextId, streak>>
    ELSE /\ error' = ""
         /\ mutating' = TRUE
         /\ Commit(todos, filter, loading, items,
                   Issue(createTodo(title), <<>>, FALSE))
         /\ last' = Entered("add", 0, FALSE)
         /\ UNCHANGED <<newTitle, db, nextId, streak>>

handleAdd ==
    LET title == Trim(newTitle) IN
    IF title = <<>>
    THEN /\ last' = Entered("add", 0, FALSE)
         /\ UNCHANGED <<todos, filter, newTitle, loading, mutating, error,
                        items, calls, db, nextId, streak>>
    ELSE /\ error' = ""
         /\ mutating' = TRUE
         /\ Commit(todos, filter, loading, items,
                   Issue(createTodo(title), <<>>, FALSE))
         /\ last' = Entered("add", 0, FALSE)
         /\ UNCHANGED <<newTitle, db, nextId, streak>>

\* ToggleOptimistic without the test of the id: flips every row.
ToggleOptimisticAll(prev, id) ==
    [k \in 1..Len(prev) |-> [prev[k] EXCEPT !.completed = ~prev[k].completed]]

ToggleOptimistic(prev, id) ==
    [k \in 1..Len(prev) |->
        IF prev[k].id = id
        THEN [prev[k] EXCEPT !.completed = ~prev[k].completed]
        ELSE prev[k]]

\* handleToggle taking its snapshot after the optimistic update.
handleToggleSnapshotLate(id) ==
    /\ error' = ""
    /\ mutating' = TRUE
    /\ Commit(ToggleOptimistic(todos, id), filter, loading, items,
              Issue(toggleTodo(id), ToggleOptimistic(todos, id), FALSE))
    /\ last' = Entered("toggle", id, FALSE)
    /\ UNCHANGED <<newTitle, db, nextId, streak>>

handleToggle(id) ==
    /\ error' = ""
    /\ mutating' = TRUE
    /\ Commit(ToggleOptimistic(todos, id), filter, loading, items,
              Issue(toggleTodo(id), todos, FALSE))
    /\ last' = Entered("toggle", id, FALSE)
    /\ UNCHANGED <<newTitle, db, nextId, streak>>

\* DeleteOptimistic with its test inverted: keeps the row it should drop.
DeleteOptimisticInverted(prev, id) == SelectSeq(prev, LAMBDA t : t.id = id)

DeleteOptimistic(prev, id) == SelectSeq(prev, LAMBDA t : t.id # id)

\* handleDelete without setMutating(true).
handleDeleteUnflagged(id) ==
    /\ error' = ""
    /\ UNCHANGED mutating
    /\ Commit(DeleteOptimistic(todos, id), filter, loading, items,
              Issue(deleteTodo(id), todos, FALSE))
    /\ last' = Entered("delete", id, FALSE)
    /\ UNCHANGED <<newTitle, db, nextId, streak>>

handleDelete(id) ==
    /\ error' = ""
    /\ mutating' = TRUE
    /\ Commit(DeleteOptimistic(todos, id), filter, loading, items,
              Issue(deleteTodo(id), todos, FALSE))
    /\ last' = Entered("delete", id, FALSE)
    /\ UNCHANGED <<newTitle, db, nextId, streak>>

UpdateOptimistic(prev, id, title) ==
    [k \in 1..Len(prev) |->
        IF prev[k].id = id THEN [prev[k] EXCEPT !.title = title] ELSE prev[k]]

\* handleUpdateTitle sending completed: false, as createTodo does.
handleUpdateTitleUncompletes(id, title, editor) ==
    /\ error' = ""
    /\ IF ~HasId(todos, id)
       THEN /\ last' = Entered("update", id, editor)
            /\ UNCHANGED <<todos, filter, newTitle, loading, mutating, items,
                           calls, db, nextId, streak>>
       ELSE /\ mutating' = TRUE
            /\ Commit(UpdateOptimistic(todos, id, title), filter, loading, items,
                      Issue(updateTodo(id, title, FALSE), todos, editor))
            /\ last' = Entered("update", id, editor)
            /\ UNCHANGED <<newTitle, db, nextId, streak>>

\* editor: the caller is a TodoItem's commitEdit, which awaits the result.
handleUpdateTitle(id, title, editor) ==
    /\ error' = ""
    /\ IF ~HasId(todos, id)
       THEN /\ last' = Entered("update", id, editor)
            /\ UNCHANGED <<todos, filter, newTitle, loading, mutating, items,
                           calls, db, nextId, streak>>
       ELSE LET existing == FindById(todos, id) IN
            /\ mutating' = TRUE
            /\ Commit(UpdateOptimistic(todos, id, title), filter, loading, items,
                      Issue(updateTodo(id, title, existing.completed), todos, editor))
            /\ last' = Entered("update", id, editor)
            /\ UNCHANGED <<newTitle, db, nextId, streak>>

\* setFilter clearing the error as the other handlers do.
setFilterClearsError(f) ==
    /\ Commit(todos, f, loading, items, calls)
    /\ error' = ""
    /\ last' = Event("other", "", 0)
    /\ UNCHANGED <<newTitle, mutating, db, nextId, streak>>

setFilter(f) ==
    /\ Commit(todos, f, loading, items, calls)
    /\ last' = Event("other", "", 0)
    /\ UNCHANGED <<newTitle, mutating, error, db, nextId, streak>>

setNewTitle(value) ==
    /\ newTitle' = value
    /\ last' = Event("other", "", 0)
    /\ UNCHANGED <<todos, filter, loading, mutating, error, items, calls, db,
                   nextId, streak>>

\* ------------------------------------------------------ TodoItem handlers
startEdit(id) ==
    /\ items[id].mounted
    /\ ~items[id].isEditing
    /\ Cardinality({i \in Ids : items[i].isEditing}) < MaxEditing
    /\ items' = [items EXCEPT ![id].isEditing = TRUE]
    /\ last' = Event("other", "", 0)
    /\ UNCHANGED <<todos, filter, newTitle, loading, mutating, error, calls,
                   db, nextId, streak>>

setDraftTitle(id, value) ==
    /\ items[id].mounted
    /\ items[id].isEditing
    /\ items' = [items EXCEPT ![id].draftTitle = value]
    /\ last' = Event("other", "", 0)
    /\ UNCHANGED <<todos, filter, newTitle, loading, mutating, error, calls,
                   db, nextId, streak>>

cancelEdit(id) ==
    /\ items[id].mounted
    /\ items[id].isEditing
    /\ items' = [items EXCEPT ![id].draftTitle = FindById(todos, id).title,
                              ![id].isEditing = FALSE]
    /\ last' = Event("other", "", 0)
    /\ UNCHANGED <<todos, filter, newTitle, loading, mutating, error, calls,
                   db, nextId, streak>>

\* commitEdit up to its await.
commitEdit(id) ==
    /\ items[id].mounted
    /\ items[id].isEditing
    /\ LET nextTitle == Trim(items[id].draftTitle) IN
       IF nextTitle = <<>>
       THEN /\ last' = Entered("commit", id, TRUE)
            /\ UNCHANGED <<todos, filter, newTitle, loading, mutating, error,
                           items, calls, db, nextId, streak>>
       ELSE IF nextTitle = FindById(todos, id).title
       THEN /\ items' = [items EXCEPT ![id].isEditing = FALSE]
            /\ last' = Entered("commit", id, TRUE)
            /\ UNCHANGED <<todos, filter, newTitle, loading, mutating, error,
                           calls, db, nextId, streak>>
       ELSE handleUpdateTitle(id, nextTitle, TRUE)

\* ------------------------------------------------------- network, backend
Pending(k) == k \in 1..Len(calls) /\ calls[k].net.state = "pending"

Arrive(k, net) ==
    /\ calls' = [calls EXCEPT ![k].net = net]
    /\ UNCHANGED entered
    /\ last' = Event("other", "", 0)
    /\ UNCHANGED <<todos, filter, newTitle, loading, mutating, error, items,
                   streak>>

\* The backend carries the request out and its response arrives.
ServerReply(k) ==
    /\ Pending(k)
    /\ CanApply(calls[k].req)
    /\ db' = Apply(calls[k].req).db
    /\ nextId' = Apply(calls[k].req).nextId
    /\ Arrive(k, NetResponse(Apply(calls[k].req).res))

\* The backend refuses the request: a non-success response, nothing changed.
ServerError(k, res) ==
    /\ Pending(k)
    /\ Arrive(k, NetResponse(res))
    /\ UNCHANGED <<db, nextId>>

\* fetch rejects and the request never reached the backend.
RequestLost(k) ==
    /\ Pending(k)
    /\ Arrive(k, NetRejected)
    /\ UNCHANGED <<db, nextId>>

\* The backend carries the request out, but fetch rejects: the response is lost.
ResponseLost(k) ==
    /\ Pending(k)
    /\ CanApply(calls[k].req)
    /\ db' = Apply(calls[k].req).db
    /\ nextId' = Apply(calls[k].req).nextId
    /\ Arrive(k, NetRejected)

\* ------------------------------------------- App handlers, after the await
Arrived(k, op) ==
    /\ k \in 1..Len(calls)
    /\ calls[k].net.state # "pending"
    /\ calls[k].req.op = op

\* data.items || []
ItemsOrEmpty(data) ==
    IF data.type = "list" /\ data.hasItems THEN data.items ELSE <<>>

\* ReplaceById adding the server's record instead of replacing by id.
ReplaceByIdAppends(prev, id, updated) == prev \o <<updated>>

\* ReplaceById writing the row as completed whatever the server answered.
ReplaceByIdMarksCompleted(prev, id, updated) ==
    [k \in 1..Len(prev) |->
        IF prev[k].id = id THEN [updated EXCEPT !.completed = TRUE] ELSE prev[k]]

\* setTodos((prev) => prev.map((t) => (t.id === id ? updated : t)))
ReplaceById(prev, id, updated) ==
    [k \in 1..Len(prev) |-> IF prev[k].id = id THEN updated ELSE prev[k]]

\* Prepend putting the created row last.
PrependAtEnd(created, prev) == prev \o <<created>>

\* setTodos((prev) => [created, ...prev])
Prepend(created, prev) == <<created>> \o prev

\* setTodos(prevTodos) in a catch block
Rollback(prevTodos) == prevTodos

History(c, r) ==
    /\ UNCHANGED entered
    /\ last' = Settled(c, r)
    /\ streak' = IF c.req.op = "toggle" /\ ~r.threw /\ HasId(c.pre, c.req.id)
                 THEN [on |-> TRUE, id |-> c.req.id,
                       was |-> FindById(c.pre, c.req.id).completed,
                       agreed |-> FindById(c.pre, c.req.id).completed
                                    = ~r.value.todo.completed]
                 ELSE NoStreak

\* refresh emptying the list when the list call fails.
refreshSettledClears(k) ==
    /\ Arrived(k, "list")
    /\ LET c == calls[k]
           r == Request(c.net) IN
       /\ error' = IF r.threw THEN CatchMessage(r.err, "Failed to load todos") ELSE error
       /\ Commit(IF r.threw THEN <<>> ELSE ItemsOrEmpty(r.value),
                 filter, FALSE, items, Remove(calls, k))
       /\ History(c, r)
    /\ UNCHANGED <<newTitle, mutating, db, nextId>>

refreshSettled(k) ==
    /\ Arrived(k, "list")
    /\ LET c == calls[k]
           r == Request(c.net) IN
       /\ error' = IF r.threw THEN CatchMessage(r.err, "Failed to load todos") ELSE error
       /\ Commit(IF r.threw THEN todos ELSE ItemsOrEmpty(r.value),
                 filter, FALSE, items, Remove(calls, k))
       /\ History(c, r)
    /\ UNCHANGED <<newTitle, mutating, db, nextId>>

handleAddSettled(k) ==
    /\ Arrived(k, "create")
    /\ LET c == calls[k]
           r == Request(c.net) IN
       /\ error' = IF r.threw THEN CatchMessage(r.err, "Failed to add todo") ELSE error
       /\ newTitle' = IF r.threw THEN newTitle ELSE <<>>
       /\ Commit(IF r.threw THEN todos ELSE Prepend(r.value.todo, todos),
                 filter, loading, items, Confirm(Remove(calls, k), c, r))
       /\ History(c, r)
    /\ mutating' = FALSE
    /\ UNCHANGED <<db, nextId>>

handleToggleSettled(k) ==
    /\ Arrived(k, "toggle")
    /\ LET c == calls[k]
           r == Request(c.net) IN
       /\ error' = IF r.threw THEN CatchMessage(r.err, "Failed to toggle todo") ELSE error
       /\ Commit(IF r.threw THEN Rollback(c.prevTodos)
                 ELSE ReplaceById(todos, c.req.id, r.value.todo),
                 filter, loading, items, Confirm(Remove(calls, k), c, r))
       /\ History(c, r)
    /\ mutating' = FALSE
    /\ UNCHANGED <<newTitle, db, nextId>>

handleDeleteSettled(k) ==
    /\ Arrived(k, "delete")
    /\ LET c == calls[k]
           r == Request(c.net) IN
       /\ error' = IF r.threw THEN CatchMessage(r.err, "Failed to delete todo") ELSE error
       /\ Commit(IF r.threw THEN Rollback(c.prevTodos) ELSE todos,
                 filter, loading, items, Confirm(Remove(calls, k), c, r))
       /\ History(c, r)
    /\ mutating' = FALSE
    /\ UNCHANGED <<newTitle, db, nextId>>

\* commitEdit closing edit mode although handleUpdateTitle threw.
CommitEditSettledSwallows(its, c, r) ==
    IF c.editor
    THEN [its EXCEPT ![c.req.id].isEditing = FALSE]
    ELSE its

\* What commitEdit does once handleUpdateTitle has settled: after a throw
\* its last statement is skipped.
CommitEditSettled(its, c, r) ==
    IF c.editor /\ ~r.threw
    THEN [its EXCEPT ![c.req.id].isEditing = FALSE]
    ELSE its

\* handleUpdateTitle with setMutating(false) at the end of its try block
\* instead of a finally block: the throw skips it.
handleUpdateTitleSettledNoFinally(k) ==
    /\ Arrived(k, "update")
    /\ LET c == calls[k]
           r == Request(c.net) IN
       /\ error' = IF r.threw THEN CatchMessage(r.err, "Failed to update todo") ELSE error
       /\ Commit(IF r.threw THEN Rollback(c.prevTodos)
                 ELSE ReplaceById(todos, c.req.id, r.value.todo),
                 filter, loading, CommitEditSettled(items, c, r),
                 Confirm(Remove(calls, k), c, r))
       /\ History(c, r)
       /\ mutating' = IF r.threw THEN mutating ELSE FALSE
    /\ UNCHANGED <<newTitle, db, nextId>>

handleUpdateTitleSettled(k) ==
    /\ Arrived(k, "update")
    /\ LET c == calls[k]
           r == Request(c.net) IN
       /\ error' = IF r.threw THEN CatchMessage(r.err, "Failed to update todo") ELSE error
       /\ Commit(IF r.threw THEN Rollback(c.prevTodos)
                 ELSE ReplaceById(todos, c.req.id, r.value.todo),
                 filter, loading, CommitEditSettled(items, c, r),
                 Confirm(Remove(calls, k), c, r))
       /\ History(c, r)
    /\ mutating' = FALSE
    /\ UNCHANGED <<newTitle, db, nextId>>

\* ------------------------------------------------- the rendered controls
\* An event reaches a handler only through an element that is rendered and
\* not disabled.
busy == mutating

TypeNewTitle == \E v \in Drafts : ~(loading \/ mutating) /\ setNewTitle(v) /\ UNCHANGED entered

SubmitAdd == ~(loading \/ mutating \/ Trim(newTitle) = <<>>) /\ handleAdd /\ UNCHANGED entered

ClickFilter == \E f \in FILTERS : ~loading /\ setFilter(f) /\ UNCHANGED entered

\* The Refresh button disabled while loading only, as the filter buttons are.
ClickRefreshWhileMutating == ~loading /\ refresh /\ UNCHANGED entered

ClickRefresh == ~(loading \/ mutating) /\ refresh /\ UNCHANGED entered

ClickToggle == \E i \in Ids : items[i].mounted /\ ~busy /\ handleToggle(i) /\ UNCHANGED entered

ClickDelete ==
    \E i \in Ids :
        /\ items[i].mounted /\ ~items[i].isEditing /\ ~busy
        /\ handleDelete(i) /\ UNCHANGED entered

ClickEdit == \E i \in Ids : ~busy /\ startEdit(i) /\ UNCHANGED entered

TypeDraft == \E i \in Ids, v \in Drafts : ~busy /\ setDraftTitle(i, v) /\ UNCHANGED entered

\* Enter in the edit input (the Save button asks for a non-blank draft too).
PressEnter == \E i \in Ids : ~busy /\ commitEdit(i) /\ UNCHANGED entered

\* Escape in the edit input, or the Cancel button.
PressEscape == \E i \in Ids : ~busy /\ cancelEdit(i) /\ UNCHANGED entered

ServerReplies == \E k \in 1..Len(calls) : ServerReply(k)

ServerErrors == \E k \in 1..Len(calls), res \in ErrorResponses : ServerError(k, res)

RequestsLost == \E k \in 1..Len(calls) : RequestLost(k)

ResponsesLost == \E k \in 1..Len(calls) : ResponseLost(k)

RefreshSettles == \E k \in 1..Len(calls) : refreshSettled(k)

AddSettles == \E k \in 1..Len(calls) : handleAddSettled(k)

ToggleSettles == \E k \in 1..Len(calls) : handleToggleSettled(k)

DeleteSettles == \E k \in 1..Len(calls) : handleDeleteSettled(k)

UpdateSettles == \E k \in 1..Len(calls) : handleUpdateTitleSettled(k)

\* What the user can do, given what is rendered and enabled.
User ==
    \/ TypeNewTitle
    \/ SubmitAdd
    \/ ClickFilter
    \/ ClickRefresh
    \/ ClickToggle
    \/ ClickDelete
    \/ ClickEdit
    \/ TypeDraft
    \/ PressEnter
    \/ PressEscape

\* The continuations of the handlers.
Settle ==
    \/ RefreshSettles
    \/ AddSettles
    \/ ToggleSettles
    \/ DeleteSettles
    \/ UpdateSettles

Next ==
    \/ User
    \/ ServerReplies
    \/ ServerErrors
    \/ RequestsLost
    \/ ResponsesLost
    \/ Settle

\* The application as rendered.
Spec == Init /\ [][Next]_vars

\* ------------------------------------------- the handlers driven directly
\* Nothing in the handlers themselves refuses a call while another is in
\* flight, or an id that is not in the list: here every handler may be
\* entered at any time, with any argument.
Room == Len(calls) < MaxCalls /\ entered < MaxEntered

\* entered counts the calls issued.
Count == entered' = entered + (Len(calls') - Len(calls))

CallSetNewTitle == \E v \in Drafts : setNewTitle(v) /\ Count

CallHandleAdd == (Room \/ Trim(newTitle) = <<>>) /\ handleAdd /\ Count

CallSetFilter == \E f \in FILTERS : setFilter(f) /\ Count

CallRefresh == Room /\ refresh /\ Count

CallHandleToggle == \E i \in Ids : Room /\ handleToggle(i) /\ Count

CallHandleDelete == \E i \in Ids : Room /\ handleDelete(i) /\ Count

CallHandleUpdateTitle ==
    \E i \in Ids, v \in Drafts : Room /\ handleUpdateTitle(i, v, FALSE) /\ Count

CallStartEdit == \E i \in Ids : startEdit(i) /\ Count

CallSetDraftTitle == \E i \in Ids, v \in Drafts : setDraftTitle(i, v) /\ Count

CallCommitEdit == \E i \in Ids : Room /\ commitEdit(i) /\ Count

CallCancelEdit == \E i \in Ids : cancelEdit(i) /\ Count

Caller ==
    \/ CallSetNewTitle
    \/ CallHandleAdd
    \/ CallSetFilter
    \/ CallRefresh
    \/ CallHandleToggle
    \/ CallHandleDelete
    \/ CallHandleUpdateTitle
    \/ CallStartEdit
    \/ CallSetDraftTitle
    \/ CallCommitEdit
    \/ CallCancelEdit

NextController ==
    \/ Caller
    \/ ServerReplies
    \/ ServerErrors
    \/ RequestsLost
    \/ ResponsesLost
    \/ Settle

SpecController == Init /\ [][NextController]_vars

\* Every call succeeds: the backend carries each request out and answers.
NextOk ==
    \/ User
    \/ ServerReplies
    \/ Settle

SpecOk == Init /\ [][NextOk]_vars

\* ------------------------------------------------------------- progress
\* Some call in flight is resolved: the backend answers or refuses it, or
\* fetch rejects. (A lost response differs from a lost request only in the
\* backend's rows, which neither flag depends on.)
Resolve ==
    \/ ServerReplies
    \/ ServerErrors
    \/ RequestsLost

NextLive ==
    \/ User
    \/ Resolve
    \/ Settle

\* Every call issued is eventually resolved, and the continuation of an
\* await runs once its promise has settled (the event loop runs every
\* queued job).
SpecLive == Init /\ [][NextLive]_vars /\ WF_vars(Resolve) /\ WF_vars(Settle)

\* ------------------------------------------- the client's error contract
\* Bodies of non-success responses, by what response.json() makes of them.
\* text is String(data) of a scalar and JSON.stringify(data) of an object;
\* detailText the JSON text of a detail that is not a string.
ErrorBodies ==
    { [type |-> "none"],
      [type |-> "text", text |-> "<html>Bad Gateway</html>"],
      [type |-> "scalar", text |-> "null"],
      [type |-> "scalar", text |-> "oops"],
      [type |-> "scalar", text |-> ""],
      [type |-> "detail", detail |-> "Todo not found",
       text |-> "{\"detail\":\"Todo not found\"}"],
      [type |-> "detail", detail |-> "", text |-> "{\"detail\":\"\"}"],
      [type |-> "object", hasDetail |-> TRUE, detailText |-> "[{\"msg\":\"field required\"}]",
       text |-> "{\"detail\":[{\"msg\":\"field required\"}]}"],
      [type |-> "object", hasDetail |-> FALSE, detailText |-> "",
       text |-> "{\"message\":\"boom\"}"],
      [type |-> "object", hasDetail |-> FALSE, detailText |-> "", text |-> "[]"] }

\* Status lines: over HTTP/2 a response has no reason phrase (statusText "").
ErrorStatuses ==
    { [status |-> 422, statusText |-> "Unprocessable Entity"],
      [status |-> 422, statusText |-> ""],
      [status |-> 500, statusText |-> "Internal Server Error"],
      [status |-> 500, statusText |-> ""] }

NonSuccessResponses ==
    { [ok |-> FALSE, status |-> st.status, statusText |-> st.statusText, body |-> b] :
        st \in ErrorStatuses, b \in ErrorBodies }

NonSuccessReplies ==
    \E k \in 1..Len(calls), res \in NonSuccessResponses : ServerError(k, res)

\* The list call, answered by any response or none: request and
\* parseErrorBody applied to every shape of failure.
NextClient ==
    \/ ClickRefresh
    \/ ServerReplies
    \/ NonSuccessReplies
    \/ RequestsLost
    \/ RefreshSettles

SpecClient == Init /\ [][NextClient]_vars

\* ------------------------------------------------------------------ claims
\* The step just taken was the continuation of a handler whose call failed.
Failed(ops) == last.kind = "settle" /\ ~last.ok /\ last.op \in ops

\* C1. Rollback law: once the failure handler of a toggle, delete or
\* update-title has run, todos equals its value when the operation was
\* started; after a failed create, todos equals its value before the add.
RollbackLaw ==
    Failed({"toggle", "delete", "update", "create"}) => todos = last.call.pre

\* A failed delete of the first of two rows has put it back in first place.
RollbackLawWitness ==
    /\ Failed({"delete"})
    /\ Len(todos) = 2
    /\ todos[1].id = last.id

\* C2. todos never holds two entries with the same id.
UniqueIds == NoDuplicateIds(todos)

\* Two rows, the second just prepended by a successful add.
UniqueIdsWitness ==
    /\ last.kind = "settle" /\ last.op = "create" /\ last.ok
    /\ Len(todos) = 2

\* The list and the backend hold the same ids, with the same title and
\* completed for each.
Agree(ts, rows) ==
    /\ IdsOf(ts) = IdsOf(rows)
    /\ \A k \in 1..Len(ts) :
        /\ FindById(rows, ts[k].id).title = ts[k].title
        /\ FindById(rows, ts[k].id).completed = ts[k].completed

\* C3. When every call succeeds, todos agrees with the backend whenever no
\* call is in flight.
AgreesWithBackend == calls = <<>> => Agree(todos, db)

\* After a successful update-title, with two rows and nothing in flight.
AgreesWithBackendWitness ==
    /\ calls = <<>>
    /\ last.kind = "settle" /\ last.op = "update" /\ last.ok
    /\ Len(todos) = 2

\* The step just taken settled the second of two successful toggles of one
\* id, with no other call settled between them.
ToggledTwice ==
    /\ last.kind = "settle" /\ last.op = "toggle" /\ last.ok
    /\ last.prior.on /\ last.prior.id = last.id
    /\ HasId(todos, last.id)

\* C4, as stated. Two successful toggles of one id in succession leave its
\* completed as it was before the first.
ToggleRoundTrip ==
    ToggledTwice => FindById(todos, last.id).completed = last.prior.was

\* C4, amended. ... provided its completed agreed with the backend's when
\* the first toggle was started.
ToggleRoundTripInSync ==
    (ToggledTwice /\ last.prior.agreed)
        => FindById(todos, last.id).completed = last.prior.was

ToggleRoundTripWitness == ToggledTwice /\ last.prior.agreed

\* C5. Changing filter leaves todos, loading, mutating and error as they
\* were, and while filter is "all" filteredTodos is todos.
FilterIsIdempotent ==
    /\ [](filter = "all" => filteredTodos = todos)
    /\ [][filter' # filter => UNCHANGED <<todos, loading, mutating, error>>]_vars

\* The filter was changed and hides a row, while an error shows.
FilterIsIdempotentWitness ==
    /\ filter = "completed"
    /\ filteredTodos # todos
    /\ error # ""
    /\ ~loading

\* This step enters handleAdd with a blank draft.
BlankAdd == last'.kind = "enter" /\ last'.op = "add" /\ Trim(newTitle) = <<>>

\* This step enters commitEdit of a row whose draft is blank.
BlankCommit ==
    /\ last'.kind = "enter" /\ last'.editor
    /\ Trim(items[last'.id].draftTitle) = <<>>

\* C6. Empty-title guard: an add or a title-update whose draft is empty or
\* only whitespace issues no network call and leaves todos as it was.
EmptyTitleGuard ==
    [][(BlankAdd \/ BlankCommit) => (calls' = calls /\ todos' = todos)]_vars

\* commitEdit has just returned on a whitespace-only draft.
EmptyTitleGuardWitness ==
    /\ last.kind = "enter" /\ last.op = "commit"
    /\ items[last.id].isEditing
    /\ items[last.id].draftTitle = <<" ">>

\* This step is the continuation of handleUpdateTitle.
UpdateSettling == Len(calls') < Len(calls) /\ last'.op = "update"

\* C7. When an update-title call fails the snapshot is restored, the error
\* is set and the row's editor stays in edit mode; the continuation closes
\* edit mode only when the call succeeded.
FailedUpdateKeepsEditing ==
    [][UpdateSettling =>
        /\ ~last'.ok =>
            /\ todos' = last'.call.pre
            /\ error' = last'.message
            /\ items[last'.id].isEditing => items'[last'.id].isEditing
        /\ (last'.ok /\ last'.editor) => ~items'[last'.id].isEditing
        /\ (items[last'.id].isEditing /\ ~items'[last'.id].isEditing) => last'.ok
      ]_vars

\* A failed update-title has left its row in edit mode.
FailedUpdateKeepsEditingWitness ==
    /\ Failed({"update"})
    /\ last.editor
    /\ items[last.id].isEditing

\* C8, as stated. mutating is true while any mutating call is in flight.
MutatingWhileInFlight == MutatingInFlight => mutating

\* C8, amended. mutating is true while a mutating call is in flight that
\* no other mutating call has overlapped.
MutatingWhileAloneInFlight ==
    \A k \in 1..Len(calls) :
        (calls[k].req.op \in Mutations /\ ~calls[k].overlapped) => mutating

\* A mutating call that nothing overlapped has its answer, not yet handled,
\* while a list call is in flight as well.
MutatingWhileAloneInFlightWitness ==
    \E j, k \in 1..Len(calls) :
        /\ calls[k].req.op \in Mutations
        /\ ~calls[k].overlapped
        /\ calls[k].net.state # "pending"
        /\ calls[j].req.op = "list"

\* C9. When the list call of a refresh fails, todos is as it was before the
\* refresh, error holds the failure's message and loading is false.
RefreshFailure ==
    Failed({"list"}) =>
        /\ todos = last.call.pre
        /\ error = last.message
        /\ ~loading

\* A refresh of a list that is not empty has failed.
RefreshFailureWitness == Failed({"list"}) /\ todos # <<>>

\* C10, as stated. After a failed call error is a message that is not
\* empty; it stays until a next operation is started, and starting an
\* operation that issues a call clears it.
ErrorIsSet ==
    /\ [](Failed({"list", "create", "toggle", "delete", "update"}) => error # "")
    /\ [][(error # "" /\ error' # error) => last'.kind \in {"enter", "settle"}]_vars
    /\ [][Len(calls') > Len(calls) => error' = ""]_vars

\* This step enters handleUpdateTitle with an id that todos does not hold.
AbsentUpdate ==
    last'.kind = "enter" /\ last'.op = "update" /\ ~HasId(todos, last'.id)

\* C11, as stated. Update-title on an id that todos does not hold issues no
\* network call and leaves todos, error, mutating and loading as they were.
AbsentUpdateIsNoOp ==
    [][AbsentUpdate => UNCHANGED <<calls, todos, error, mutating, loading>>]_vars

\* This step is the continuation of handleAdd.
AddSettling == Len(calls') < Len(calls) /\ last'.op = "create"

\* C12. After a successful create the returned todo is first in todos, the
\* rows todos held before the add follow in their order and the draft is
\* empty; after a failed create todos and the draft are as they were and
\* error is the failure's message.
AddPrepends ==
    [][AddSettling =>
        /\ last'.ok =>
            /\ todos' = <<Request(last'.call.net).value.todo>> \o todos
            /\ Tail(todos') = last'.call.pre
            /\ newTitle' = <<>>
        /\ ~last'.ok =>
            /\ todos' = todos
            /\ todos' = last'.call.pre
            /\ newTitle' = newTitle
            /\ error' = last'.message
      ]_vars

\* A successful add has put the created row before the one already there.
AddPrependsWitness ==
    /\ last.kind = "settle" /\ last.op = "create" /\ last.ok
    /\ Len(todos) = 2
    /\ todos[1] = Request(last.call.net).value.todo
    /\ todos[2].id = 1
    /\ newTitle = <<>>

\* This step enters handleToggle for a row of todos.
ToggleStarting ==
    last'.kind = "enter" /\ last'.op = "toggle" /\ HasId(todos, last'.id)

\* This step is the continuation of handleToggle after a successful call.
ToggleSucceeding ==
    Len(calls') < Len(calls) /\ last'.op = "toggle" /\ last'.ok

\* C13. Starting a toggle flips the target's completed locally; once the
\* server has answered successfully the entry with that id is the server's
\* record, and the other entries and the order are as before the toggle.
ToggleSuccess ==
    /\ [][ToggleStarting =>
            /\ FindById(todos', last'.id).completed
                    = ~FindById(todos, last'.id).completed
            /\ FindById(todos', last'.id).title = FindById(todos, last'.id).title
            /\ Len(todos') = Len(todos)
            /\ \A k \in 1..Len(todos) :
                    /\ todos'[k].id = todos[k].id
                    /\ todos[k].id # last'.id => todos'[k] = todos[k]
          ]_vars
    /\ [][ToggleSucceeding =>
            /\ FindById(todos', last'.id) = Request(last'.call.net).value.todo
            /\ Len(todos') = Len(last'.call.pre)
            /\ \A k \in 1..Len(todos') :
                    /\ todos'[k].id = last'.call.pre[k].id
                    /\ todos'[k].id # last'.id => todos'[k] = last'.call.pre[k]
          ]_vars

\* The second of two rows was toggled and now is the server's record.
ToggleSuccessWitness ==
    /\ last.kind = "settle" /\ last.op = "toggle" /\ last.ok
    /\ Len(todos) = 2
    /\ todos[2].id = last.id
    /\ todos[2] = Request(last.call.net).value.todo
    /\ todos[2].completed

\* This step enters handleUpdateTitle for a row of todos.
UpdateStarting ==
    last'.kind = "enter" /\ last'.op = "update" /\ HasId(todos, last'.id)

\* C14. Update-title on a present id rewrites that row's title only, its
\* completed and the other rows staying as they were; the request carries
\* the new title (the editor's trimmed draft) and the completed the row had
\* locally; after a successful call the row is the server's record.
UpdateTitleRequest ==
    /\ [][UpdateStarting =>
            LET id == last'.id
                req == calls'[Len(calls')].req IN
            /\ Len(calls') = Len(calls) + 1
            /\ req.op = "update" /\ req.id = id
            /\ req.title = Trim(items[id].draftTitle)
            /\ req.completed = FindById(todos, id).completed
            /\ FindById(todos', id).title = req.title
            /\ FindById(todos', id).completed = FindById(todos, id).completed
            /\ Len(todos') = Len(todos)
            /\ \A k \in 1..Len(todos) :
                    /\ todos'[k].id = todos[k].id
                    /\ todos[k].id # id => todos'[k] = todos[k]
          ]_vars
    /\ [][(UpdateSettling /\ last'.ok) =>
            FindById(todos', last'.id) = Request(last'.call.net).value.todo
          ]_vars

\* A completed row was retitled: the request carried completed = true and
\* the row now is the server's record.
UpdateTitleRequestWitness ==
    /\ last.kind = "settle" /\ last.op = "update" /\ last.ok
    /\ last.call.req.completed
    /\ last.call.req.title = <<"b">>
    /\ FindById(todos, last.id) = Row(last.id, <<"b">>, TRUE)

\* The step just taken handled a call that a non-success response answered.
AnsweredNonSuccess ==
    /\ last.kind = "settle"
    /\ last.call.net.state = "response"
    /\ ~last.call.net.res.ok

\* The body was parsed as JSON.
IsJson(b) == b.type \in {"scalar", "detail", "object"}

\* The parsed body is an object with a detail field.
HasDetailField(b) == b.type = "detail" \/ (b.type = "object" /\ b.hasDetail)

\* The message as C15 states it: detail if present, else the stringified
\* JSON body, else the status text.
MessageAsStated(res) ==
    IF HasDetailField(res.body)
    THEN (IF res.body.type = "detail" THEN res.body.detail ELSE res.body.detailText)
    ELSE IF IsJson(res.body) THEN res.body.text
    ELSE res.statusText

\* The message as amended: detail if it is a string, else the stringified
\* JSON body, else the status text, else "Request failed".
MessageAsAmended(res) ==
    IF res.body.type = "detail" THEN res.body.detail
    ELSE IF IsJson(res.body) THEN res.body.text
    ELSE IF res.statusText # "" THEN res.statusText
    ELSE "Request failed"

\* C15, as stated. Every non-success response makes the call fail with the
\* message chosen as: detail if present, else the stringified JSON body,
\* else the status text.
ErrorContract ==
    AnsweredNonSuccess =>
        ~last.ok /\ error = MessageAsStated(last.call.net.res)

\* C15, amended. ... detail if it is a string, else the stringified JSON
\* body, else the status text if not empty, else "Request failed".
ErrorContractStringDetail ==
    AnsweredNonSuccess =>
        ~last.ok /\ error = MessageAsAmended(last.call.net.res)

\* A response whose detail is a string was turned into that message.
ErrorContractStringDetailWitness ==
    /\ AnsweredNonSuccess
    /\ last.call.net.res.body.type = "detail"
    /\ error = "Todo not found"

\* This step enters handleDelete for a row of todos.
DeleteStarting ==
    last'.kind = "enter" /\ last'.op = "delete" /\ HasId(todos, last'.id)

\* This step is the continuation of handleDelete, and the backend answered
\* the call with a success status and no body.
DeleteAnswered ==
    /\ Len(calls') < Len(calls) /\ last'.op = "delete"
    /\ last'.call.net.state = "response"
    /\ last'.call.net.res = NoContent204

\* C16. Starting a delete removes the target from todos at once; when the
\* backend answers with a success status and no body the client yields no
\* value, no error is set and the todo stays removed.
DeleteSuccess ==
    /\ [][DeleteStarting =>
            /\ ~HasId(todos', last'.id)
            /\ Len(todos') = Len(todos) - 1
            /\ \A k \in 1..Len(todos') : HasId(todos, todos'[k].id)
            /\ \A j, k \in 1..Len(todos') :
                    j < k => \E m, n \in 1..Len(todos) :
                                m < n /\ todos[m] = todos'[j] /\ todos[n] = todos'[k]
          ]_vars
    /\ [][DeleteAnswered =>
            /\ last'.ok
            /\ Request(last'.call.net).value = [type |-> "null"]
            /\ error' = ""
            /\ todos' = todos
            /\ ~HasId(todos', last'.id)
          ]_vars

\* The first of two rows was deleted with success: the other is left.
DeleteSuccessWitness ==
    /\ last.kind = "settle" /\ last.op = "delete" /\ last.ok
    /\ last.call.net.res = NoContent204
    /\ Len(last.call.pre) = 2
    /\ last.call.pre[1].id = last.id
    /\ todos = <<last.call.pre[2]>>
    /\ error = ""

\* C17. No stuck flags: when every call issued is resolved, loading and
\* mutating become false again, and once false each stays false until a
\* handler that issues a call is entered.
NoStuckFlags ==
    /\ loading ~> ~loading
    /\ mutating ~> ~mutating
    /\ [][(~loading /\ loading') => (last'.kind = "enter" /\ Len(calls') > Len(calls))]_vars
    /\ [][(~mutating /\ mutating') => (last'.kind = "enter" /\ Len(calls') > Len(calls))]_vars

\* An update-title has failed and thrown to commitEdit, and both flags are
\* false with nothing in flight.
NoStuckFlagsWitness ==
    /\ Failed({"update"})
    /\ last.editor
    /\ calls = <<>>
    /\ ~loading /\ ~mutating

\* C18. With operations started only through the rendered controls, at
\* most one network call is in flight at any time.
OneCallInFlight == Len(calls) <= 1

\* An update-title call is in flight, alone, after the list has loaded.
OneCallInFlightWitness ==
    /\ Len(calls) = 1
    /\ calls[1].req.op = "update"
    /\ calls[1].net.state = "pending"
    /\ mutating /\ ~loading

\* The step just taken was the rollback of a failed toggle, delete or
\* update of a row of todos, nothing is in flight any more, and while that
\* call was in flight the server confirmed another.
RolledBackAfterConfirm ==
    /\ Failed({"toggle", "delete", "update"})
    /\ HasId(last.call.pre, last.id)
    /\ calls = <<>>
    /\ last.call.confirmed # {}

\* C19, as stated. When two mutating operations overlap and one fails, its
\* rollback does not undo what the server confirmed for the other: a todo
\* whose delete was confirmed is absent, and a todo whose toggle or update
\* was confirmed is the server's record.
RollbackKeepsConfirmed ==
    RolledBackAfterConfirm =>
        \A e \in last.call.confirmed :
            e.present =>
                /\ e.op = "delete" => ~HasId(todos, e.id)
                /\ e.op \in {"toggle", "update"} =>
                        (HasId(todos, e.id) /\ FindById(todos, e.id) = e.value.todo)

====
